---- MODULE Spec2Model ----
(***************************************************************************)
(* A model of two pieces of the rapatin web client:                        *)
(*   - the blog administration page (BlogManagement): its form state, its  *)
(*     four mutations against the blog_posts table and the blog-posts      *)
(*     query that lists the table;                                         *)
(*   - the useUrlData hook: the module-level defaultUrls object, the       *)
(*     per-instance loading/error state, and the local-storage fallback.   *)
(* Text is a sequence of one-character strings, so that the slug transform *)
(* is computed character by character.  Timestamps are naturals: NoTime is *)
(* the empty string '', UserTime a time typed into the datetime input, and *)
(* every later value an instant returned by new Date().                    *)
(***************************************************************************)
EXTENDS Naturals, Sequences, FiniteSets, TLC

\* ------------------------------------------------------------------ bounds
MaxCalls == 1      \* backend mutation calls issued by the page
MaxTitleLen == 3   \* length of the titles drawn in SlugSpec

\* ------------------------------------------------------------------- text
Empty == <<>>

UpperChars == {"A"}
LowerChars == {"a", "b"}
DigitChars == {"1"}
SpaceChars == {" ", "\t"}
OtherChars == {"!", "-", "#"}      \* '#' stands for a non-ASCII letter
WordChars == UpperChars \cup LowerChars \cup DigitChars \cup {"_"}
Alphabet == WordChars \cup SpaceChars \cup OtherChars

\* String.prototype.toLowerCase, one character
LowerOf(c) == IF c = "A" THEN "a" ELSE c

toLowerCase(s) == [i \in 1..Len(s) |-> LowerOf(s[i])]

\* .replace(/[^\w\s]/gi, ''): drop every character that is neither a word
\* character nor whitespace
RECURSIVE StripNonWord(_)
StripNonWord(s) ==
  IF s = Empty THEN Empty
  ELSE IF Head(s) \in WordChars \cup SpaceChars
       THEN <<Head(s)>> \o StripNonWord(Tail(s))
       ELSE StripNonWord(Tail(s))

\* .replace(/\s+/g, '-'): every maximal run of whitespace becomes one hyphen
RECURSIVE HyphenateSpaces(_)
HyphenateSpaces(s) ==
  IF s = Empty THEN Empty
  ELSE IF Head(s) \in SpaceChars
       THEN IF Len(s) > 1 /\ s[2] \in SpaceChars
            THEN HyphenateSpaces(Tail(s))
            ELSE <<"-">> \o HyphenateSpaces(Tail(s))
       ELSE <<Head(s)>> \o HyphenateSpaces(Tail(s))

\* a derivation that forgets to strip the non-word characters
SlugFromTitleUnstripped(title) == HyphenateSpaces(toLowerCase(title))

\* the slug derived from a title
SlugFromTitle(title) == HyphenateSpaces(StripNonWord(toLowerCase(title)))

\* a save that normalises the slug the user typed as well
FinalSlugNormalised(form) ==
  IF form.slug = Empty THEN HyphenateSpaces(StripNonWord(toLowerCase(form.title)))
  ELSE HyphenateSpaces(StripNonWord(toLowerCase(form.slug)))

\* let finalSlug = formData.slug; if (!finalSlug) finalSlug = <derived>
FinalSlug(form) == IF form.slug = Empty THEN SlugFromTitle(form.title) ELSE form.slug

\* ------------------------------------------------------- blog admin: state
Null == 0          \* isEditing === null
NoTime == 0        \* publishedAt === ''
UserTime == 1      \* a value typed into the datetime-local input
FirstNow == 2      \* the first instant new Date() returns

VARIABLES
  isCreating,      \* useState(false)
  isEditing,       \* useState<string | null>(null): Null or a post id
  formData,        \* useState<BlogPostFormData>
  categories,      \* categoriesData || []
  categoriesPending, \* the ['blog-categories'] query has not resolved yet
  blogPosts,       \* data of the ['blog-posts'] query: id -> BlogPost
  queryStatus,     \* "loading" (no data yet), "fetching" (refetch), "idle"
  blog_posts,      \* the backend table: id -> row
  nextId,          \* the id the backend assigns to the next inserted row
  inflight,        \* mutation calls issued and not yet settled
  calls,           \* number of backend mutation calls issued so far
  now,             \* the instant new Date() returns next
  toast            \* the last notification shown

VARIABLES
  defaultUrls,     \* the module-level defaultUrls object (its section objects)
  localStorage,    \* localStorage.getItem('urlData')
  urlsTable,       \* the rows of the backend's urls table
  hooks            \* per useUrlData instance: phase, urls, loading, error, what its
                   \* fetch was answered with (result), and the select('*') requests
                   \* it has sent (fetches)

blogVars == <<isCreating, isEditing, formData, categories, categoriesPending, blogPosts, queryStatus,
              blog_posts, nextId, inflight, calls, now, toast>>
urlVars == <<defaultUrls, localStorage, urlsTable, hooks>>
vars == <<blogVars, urlVars>>

Statuses == {"draft", "published", "scheduled"}

T1 == <<"A", " ", "b", "!">>       \* a title
T2 == <<"b", "1">>                 \* the title of another post
S1 == <<"M", "y", " ", "!">>       \* a slug typed by the user
C1 == <<"c">>                      \* some content
Seo1 == <<"S">>                    \* an SEO title typed by the user
Cat1 == "Tips"                     \* a category name

defaultBlogPostFormData ==
  [title |-> Empty, slug |-> Empty, content |-> Empty, category |-> "",
   status |-> "draft", publishedAt |-> NoTime, seoTitle |-> Empty]

NoPosts == [i \in {} |-> Empty]

\* queryFn of ['blog-posts']: one table row as a BlogPost of the list
RowToPost(id, row) ==
  [id |-> id, title |-> row.title, slug |-> row.slug, content |-> row.content,
   category |-> row.category, status |-> row.status,
   publishedAt |-> row.published_at, seoTitle |-> row.seo_title]

isLoading == queryStatus = "loading"
ListShown == ~isLoading /\ ~isCreating /\ isEditing = Null
CreateFormShown == ~isLoading /\ isCreating
EditFormShown == ~isLoading /\ ~isCreating /\ isEditing # Null

\* an effect that copies the title over an SEO title the user has typed
SeoTitleEffectOverwrites(old, new) ==
  IF new.title # old.title /\ new.title # Empty
  THEN [new EXCEPT !.seoTitle = new.title]
  ELSE new

\* useEffect(..., [formData.title]): after a render in which the title changed,
\* copy a non-empty title into an empty seoTitle
SeoTitleEffect(old, new) ==
  IF new.title # old.title /\ new.title # Empty /\ new.seoTitle = Empty
  THEN [new EXCEPT !.seoTitle = new.title]
  ELSE new

\* queryClient.invalidateQueries({ queryKey: ['blog-posts'] })
Invalidated == IF queryStatus = "loading" THEN "loading" ELSE "fetching"

\* ------------------------------------------------- blog admin: mutationFns
\* createPostMutation.mutationFn: the row handed to insert()
CreateRow(postData, t) ==
  [title |-> postData.title, slug |-> postData.slug, content |-> postData.content,
   category |-> postData.category, status |-> postData.status,
   published_at |-> IF postData.status = "published" THEN t ELSE postData.publishedAt,
   seo_title |-> postData.seoTitle]

\* an update that never stamps the publish time
UpdateRowUnstamped(postData, t) ==
  [title |-> postData.title, slug |-> postData.slug, content |-> postData.content,
   category |-> postData.category, status |-> postData.status,
   published_at |-> postData.publishedAt,
   seo_title |-> postData.seoTitle]

\* updatePostMutation.mutationFn: the row handed to update()
UpdateRow(postData, t) ==
  [title |-> postData.title, slug |-> postData.slug, content |-> postData.content,
   category |-> postData.category, status |-> postData.status,
   published_at |-> IF postData.status = "published" /\ postData.publishedAt = NoTime
                    THEN t ELSE postData.publishedAt,
   seo_title |-> postData.seoTitle]

\* publishPostMutation.mutationFn: the columns handed to update()
PublishRow(t) == [status |-> "published", published_at |-> t]

\* a validation that forgets the content
RejectedTitleOnly(form) == form.title = Empty

\* if (!formData.title || !formData.content) { toast(...); return; }
Rejected(form) == form.title = Empty \/ form.content = Empty

\* mutate(): the call is issued, new Date() is read, time moves on
Issue(call) ==
  /\ calls < MaxCalls
  /\ inflight' = inflight \cup {call}
  /\ calls' = calls + 1
  /\ now' = now + 1

\* ---------------------------------------------------- blog admin: handlers
\* <Button onClick={() => setIsCreating(true)}>Tambah Artikel</Button>
OpenCreate ==
  /\ ListShown
  /\ isCreating' = TRUE
  /\ UNCHANGED <<isEditing, formData, categories, categoriesPending, blogPosts, queryStatus,
                 blog_posts, nextId, inflight, calls, now, toast, urlVars>>

\* Batal: action === 'create' ? setIsCreating(false) : setIsEditing(null)
CancelForm ==
  /\ \/ CreateFormShown /\ isCreating' = FALSE /\ UNCHANGED isEditing
     \/ EditFormShown /\ isEditing' = Null /\ UNCHANGED isCreating
  /\ UNCHANGED <<formData, categories, categoriesPending, blogPosts, queryStatus,
                 blog_posts, nextId, inflight, calls, now, toast, urlVars>>

\* the values the form's inputs can deliver for a field
InputValues(field) ==
  CASE field = "title" -> {Empty, T1}
    [] field = "slug" -> {Empty, S1}
    [] field = "content" -> {Empty, C1}
    [] field = "seoTitle" -> {Empty, Seo1}
    [] field = "status" -> Statuses
    [] field = "category" -> {categories[i] : i \in 1..Len(categories)}
    [] field = "publishedAt" ->
         IF formData.status = "scheduled" THEN {NoTime, UserTime} ELSE {}

\* the fields the form has inputs for (the pass-through fields excerpt, coverImage,
\* author, metaDescription and focusKeyword are copied like category and left out),
\* and those among them a save's validation, slug and publish time depend on
FormFields == {"title", "slug", "content", "seoTitle", "status", "category", "publishedAt"}
SaveFields == {"title", "slug", "content", "status", "publishedAt"}

\* handleInputChange(field, value), then the SEO-title effect of the re-render
handleInputChange(field, value) ==
  /\ CreateFormShown \/ EditFormShown
  /\ value \in InputValues(field)
  /\ formData[field] # value
  /\ formData' = SeoTitleEffect(formData, [formData EXCEPT ![field] = value])
  /\ UNCHANGED <<isCreating, isEditing, categories, categoriesPending, blogPosts, queryStatus,
                 blog_posts, nextId, inflight, calls, now, toast, urlVars>>

\* an edit that can be started while a form is open
handleStartEditAnywhere(id) ==
  /\ ~isLoading
  /\ id \in DOMAIN blogPosts
  /\ isEditing' = id
  /\ LET post == blogPosts[id] IN
     formData' = SeoTitleEffect(formData,
       [title |-> post.title, slug |-> post.slug, content |-> post.content,
        category |-> post.category, status |-> post.status,
        publishedAt |-> IF post.publishedAt # NoTime THEN post.publishedAt ELSE NoTime,
        seoTitle |-> post.seoTitle])
  /\ UNCHANGED <<isCreating, categories, categoriesPending, blogPosts, queryStatus,
                 blog_posts, nextId, inflight, calls, now, toast, urlVars>>

\* handleStartEdit(post), post an entry of the displayed list
handleStartEdit(id) ==
  /\ ListShown
  /\ id \in DOMAIN blogPosts
  /\ isEditing' = id
  /\ LET post == blogPosts[id] IN
     formData' = SeoTitleEffect(formData,
       [title |-> post.title, slug |-> post.slug, content |-> post.content,
        category |-> post.category, status |-> post.status,
        publishedAt |-> IF post.publishedAt # NoTime THEN post.publishedAt ELSE NoTime,
        seoTitle |-> post.seoTitle])
  /\ UNCHANGED <<isCreating, categories, categoriesPending, blogPosts, queryStatus,
                 blog_posts, nextId, inflight, calls, now, toast, urlVars>>

\* handleCreatePost
handleCreatePost ==
  /\ CreateFormShown
  /\ IF Rejected(formData)
     THEN /\ toast' = "validation"
          /\ UNCHANGED <<inflight, calls, now>>
     ELSE /\ Issue([n |-> calls + 1, kind |-> "create", id |-> Null,
                    row |-> CreateRow([formData EXCEPT !.slug = FinalSlug(formData)], now)])
          /\ UNCHANGED toast
  /\ UNCHANGED <<isCreating, isEditing, formData, categories, categoriesPending, blogPosts, queryStatus,
                 blog_posts, nextId, urlVars>>

\* handleUpdatePost
handleUpdatePost ==
  /\ EditFormShown
  /\ IF Rejected(formData)
     THEN /\ toast' = "validation"
          /\ UNCHANGED <<inflight, calls, now>>
     ELSE /\ Issue([n |-> calls + 1, kind |-> "update", id |-> isEditing,
                    row |-> UpdateRow([formData EXCEPT !.slug = FinalSlug(formData)], now)])
          /\ UNCHANGED toast
  /\ UNCHANGED <<isCreating, isEditing, formData, categories, categoriesPending, blogPosts, queryStatus,
                 blog_posts, nextId, urlVars>>

\* handleDeletePost(id), the confirm() dialog accepted
handleDeletePost(id) ==
  /\ ListShown
  /\ id \in DOMAIN blogPosts
  /\ Issue([n |-> calls + 1, kind |-> "delete", id |-> id])
  /\ UNCHANGED <<isCreating, isEditing, formData, categories, categoriesPending, blogPosts, queryStatus,
                 blog_posts, nextId, toast, urlVars>>

\* handlePublishPost(id): the button is rendered for drafts of the list only
handlePublishPost(id) ==
  /\ ListShown
  /\ id \in DOMAIN blogPosts
  /\ blogPosts[id].status = "draft"
  /\ Issue([n |-> calls + 1, kind |-> "publish", id |-> id, row |-> PublishRow(now)])
  /\ UNCHANGED <<isCreating, isEditing, formData, categories, categoriesPending, blogPosts, queryStatus,
                 blog_posts, nextId, toast, urlVars>>

\* ------------------------------------------- blog admin: mutation callbacks
\* createPostMutation.onSuccess
createOnSuccess ==
  /\ queryStatus' = Invalidated
  /\ toast' = "created"
  /\ isCreating' = FALSE
  /\ formData' = SeoTitleEffect(formData,
       [defaultBlogPostFormData EXCEPT
          !.category = IF Len(categories) > 0 THEN categories[1] ELSE ""])
  /\ UNCHANGED isEditing

\* updatePostMutation.onSuccess
updateOnSuccess ==
  /\ queryStatus' = Invalidated
  /\ toast' = "updated"
  /\ isEditing' = Null
  /\ UNCHANGED <<isCreating, formData>>

\* a delete that forgets to invalidate the list
deleteOnSuccessNoRefetch ==
  /\ toast' = "deleted"
  /\ UNCHANGED <<isCreating, isEditing, formData, queryStatus>>

\* deletePostMutation.onSuccess
deleteOnSuccess ==
  /\ queryStatus' = Invalidated
  /\ toast' = "deleted"
  /\ UNCHANGED <<isCreating, isEditing, formData>>

\* publishPostMutation.onSuccess
publishOnSuccess ==
  /\ queryStatus' = Invalidated
  /\ toast' = "published"
  /\ UNCHANGED <<isCreating, isEditing, formData>>

\* a failure handler that closes the create form
createOnErrorClosesForm ==
  /\ toast' = "error"
  /\ isCreating' = FALSE
  /\ UNCHANGED <<isEditing, formData, queryStatus>>

\* createPostMutation.onError
createOnError ==
  /\ toast' = "error"
  /\ UNCHANGED <<isCreating, isEditing, formData, queryStatus>>

\* updatePostMutation.onError
updateOnError ==
  /\ toast' = "error"
  /\ UNCHANGED <<isCreating, isEditing, formData, queryStatus>>

\* deletePostMutation.onError
deleteOnError ==
  /\ toast' = "error"
  /\ UNCHANGED <<isCreating, isEditing, formData, queryStatus>>

\* publishPostMutation.onError
publishOnError ==
  /\ toast' = "error"
  /\ UNCHANGED <<isCreating, isEditing, formData, queryStatus>>

\* what every settlement leaves alone
SettleFrame(m) ==
  /\ inflight' = inflight \ {m}
  /\ UNCHANGED <<categories, categoriesPending, blogPosts, calls, now, urlVars>>

\* insert(...).select().single() answers, then onSuccess
CreateSucceeds(m) ==
  /\ m \in inflight /\ m.kind = "create"
  /\ blog_posts' = [i \in DOMAIN blog_posts \cup {nextId} |->
                      IF i = nextId THEN m.row ELSE blog_posts[i]]
  /\ nextId' = nextId + 1
  /\ createOnSuccess
  /\ SettleFrame(m)

\* the insert fails: if (error) throw error, then onError
CreateFails(m) ==
  /\ m \in inflight /\ m.kind = "create"
  /\ createOnError
  /\ UNCHANGED <<blog_posts, nextId>>
  /\ SettleFrame(m)

\* update(...).eq('id', id).select().single() answers with the row, then onSuccess
UpdateSucceeds(m) ==
  /\ m \in inflight /\ m.kind = "update"
  /\ m.id \in DOMAIN blog_posts
  /\ blog_posts' = [blog_posts EXCEPT ![m.id] = m.row]
  /\ updateOnSuccess
  /\ UNCHANGED nextId
  /\ SettleFrame(m)

\* the update fails (backend error, or no row has the id: single() finds none)
UpdateFails(m) ==
  /\ m \in inflight /\ m.kind = "update"
  /\ updateOnError
  /\ UNCHANGED <<blog_posts, nextId>>
  /\ SettleFrame(m)

\* delete().eq('id', id) answers without error, then onSuccess
DeleteSucceeds(m) ==
  /\ m \in inflight /\ m.kind = "delete"
  /\ blog_posts' = [i \in DOMAIN blog_posts \ {m.id} |-> blog_posts[i]]
  /\ deleteOnSuccess
  /\ UNCHANGED nextId
  /\ SettleFrame(m)

\* the delete fails
DeleteFails(m) ==
  /\ m \in inflight /\ m.kind = "delete"
  /\ deleteOnError
  /\ UNCHANGED <<blog_posts, nextId>>
  /\ SettleFrame(m)

\* update({status, published_at}).eq('id', id).select().single() answers
PublishSucceeds(m) ==
  /\ m \in inflight /\ m.kind = "publish"
  /\ m.id \in DOMAIN blog_posts
  /\ blog_posts' = [blog_posts EXCEPT ![m.id].status = m.row.status,
                                      ![m.id].published_at = m.row.published_at]
  /\ publishOnSuccess
  /\ UNCHANGED nextId
  /\ SettleFrame(m)

\* the publish fails (backend error, or no row has the id)
PublishFails(m) ==
  /\ m \in inflight /\ m.kind = "publish"
  /\ publishOnError
  /\ UNCHANGED <<blog_posts, nextId>>
  /\ SettleFrame(m)

\* ------------------------------------------------------ blog admin: queries
\* queryFn of ['blog-posts'] resolves: the table's rows, or [] after an error
fetchBlogPosts(ok) ==
  /\ queryStatus # "idle"
  /\ queryStatus' = "idle"
  /\ IF ok
     THEN /\ blogPosts' = [i \in DOMAIN blog_posts |-> RowToPost(i, blog_posts[i])]
          /\ UNCHANGED toast
     ELSE /\ blogPosts' = NoPosts
          /\ toast' = "fetchError"
  /\ UNCHANGED <<isCreating, isEditing, formData, categories, categoriesPending,
                 blog_posts, nextId, inflight, calls, now, urlVars>>

\* queryFn of ['blog-categories'] resolves: the names, or [] after an error
fetchCategories(ok) ==
  /\ categoriesPending
  /\ categoriesPending' = FALSE
  /\ IF ok
     THEN categories' = <<Cat1>> /\ UNCHANGED toast
     ELSE categories' = <<>> /\ toast' = "categoriesError"
  /\ UNCHANGED <<isCreating, isEditing, formData, blogPosts, queryStatus,
                 blog_posts, nextId, inflight, calls, now, urlVars>>

\* ------------------------------------------------------ useUrlData: values
MaxGroups == 1     \* rows a fetch of the urls table returns
MaxItems == 2      \* items of one group

Inst == {"a", "b"}            \* the components that call useUrlData()

Undefined == "undefined"      \* reading .url of an item that has none
NullItem == "null"            \* an item that is null: reading .url throws

\* const defaultUrls = { hero: {...}, cta: {...}, ... } as written in the source
HardcodedUrls ==
  [hero |-> [ctaButton |-> "https://rapatin.id/register", pricingButton |-> "#pricing"],
   cta |-> [registerButton |-> "https://rapatin.id/register"],
   navbar |-> [loginButton |-> "https://rapatin.id/login",
               registerButton |-> "https://rapatin.id/register"],
   pricing |-> [scheduleButton |-> "https://app.rapatin.id/register"],
   dashboard |-> [registerButton |-> "https://app.rapatin.id/register"]]

Sections == {"hero", "cta", "navbar", "pricing", "dashboard"}

GroupIds == {"1", "2", "3", "4", "5", "9"}    \* '9' is an id no section has

\* the url of the k-th item of a fetched group
FetchedUrl(k) == IF k = 1 THEN "https://u/1" ELSE IF k = 2 THEN "https://u/2" ELSE "https://u/n"

\* rows of the urls table: shape "object" is { id, items: [...] },
\* "noitems" is a row whose items is null, "null" a null array element
Group(id, shape, items) == [id |-> id, shape |-> shape, items |-> items]

TableGroups ==
  {Group(id, "object", [k \in 1..n |-> FetchedUrl(k)]) : id \in GroupIds, n \in 0..MaxItems}
    \cup {Group(id, "noitems", <<>>) : id \in {"1", "2"}}

RECURSIVE SeqsUpTo(_, _)
SeqsUpTo(S, n) ==
  IF n = 0 THEN {<<>>}
  ELSE LET shorter == SeqsUpTo(S, n - 1) IN
       shorter \cup {Append(q, x) : q \in {r \in shorter : Len(r) = n - 1}, x \in S}

\* what the urls table can hold, and select('*') deliver as data
TableData == SeqsUpTo(TableGroups, MaxGroups)

\* groups only a damaged cached copy holds
DamagedGroups ==
  {Group("1", "null", <<>>),
   Group("2", "object", <<Undefined>>),
   Group("2", "object", <<"">>),
   Group("5", "object", <<NullItem>>),
   Group("1", "object", <<"https://u/1", NullItem>>)}

\* localStorage.getItem('urlData'): nothing, text JSON.parse rejects, JSON that is
\* no array, or an array of groups
CachedCopies ==
  {[kind |-> k, data |-> <<>>] : k \in {"absent", "unparsable", "notArray"}}
    \cup {[kind |-> "array", data |-> <<g>>] : g \in TableGroups \cup DamagedGroups}

\* ------------------------------------------------- useUrlData: mapUrlsToState
\* one iteration of data.forEach: the section objects after it, and whether it threw
ApplyGroup(u, g) ==
  LET it == g.items
      n == Len(g.items)
      has == g.shape = "object"
  IN
  IF g.shape = "null" THEN [urls |-> u, threw |-> TRUE]
  ELSE IF g.id = "1" /\ has /\ n >= 2 THEN
    IF it[1] = NullItem THEN [urls |-> u, threw |-> TRUE]
    ELSE IF it[2] = NullItem
         THEN [urls |-> [u EXCEPT !.hero.ctaButton = it[1]], threw |-> TRUE]
         ELSE [urls |-> [u EXCEPT !.hero.ctaButton = it[1], !.hero.pricingButton = it[2]],
               threw |-> FALSE]
  ELSE IF g.id = "2" /\ has /\ n >= 1 THEN
    IF it[1] = NullItem THEN [urls |-> u, threw |-> TRUE]
    ELSE [urls |-> [u EXCEPT !.cta.registerButton = it[1]], threw |-> FALSE]
  ELSE IF g.id = "3" /\ has /\ n >= 2 THEN
    IF it[1] = NullItem THEN [urls |-> u, threw |-> TRUE]
    ELSE IF it[2] = NullItem
         THEN [urls |-> [u EXCEPT !.navbar.loginButton = it[1]], threw |-> TRUE]
         ELSE [urls |-> [u EXCEPT !.navbar.loginButton = it[1], !.navbar.registerButton = it[2]],
               threw |-> FALSE]
  ELSE IF g.id = "4" /\ has /\ n >= 1 THEN
    IF it[1] = NullItem THEN [urls |-> u, threw |-> TRUE]
    ELSE [urls |-> [u EXCEPT !.pricing.scheduleButton = it[1]], threw |-> FALSE]
  ELSE IF g.id = "5" /\ has /\ n >= 1 THEN
    IF it[1] = NullItem THEN [urls |-> u, threw |-> TRUE]
    ELSE [urls |-> [u EXCEPT !.dashboard.registerButton = it[1]], threw |-> FALSE]
  ELSE [urls |-> u, threw |-> FALSE]

\* const newUrls = { ...defaultUrls }; data.forEach(...): the copy is shallow, so the
\* assignments write into the section objects defaultUrls itself holds
RECURSIVE mapUrlsToState(_, _)
mapUrlsToState(u, data) ==
  IF data = <<>> THEN [urls |-> u, threw |-> FALSE]
  ELSE LET r == ApplyGroup(u, Head(data)) IN
       IF r.threw THEN r ELSE mapUrlsToState(r.urls, Tail(data))

\* ------------------------------------------------------ useUrlData: actions
Unmounted ==
  [phase |-> "unmounted", urls |-> HardcodedUrls, loading |-> TRUE, error |-> "none",
   result |-> "none", fetches |-> 0]

\* a fetchUrls without its finally block: loading is left as it was
SharedStillLoading(h, i, u, err, result) ==
  [j \in Inst |->
     IF j = i THEN [phase |-> "done", urls |-> u, loading |-> h[i].loading, error |-> err,
                    result |-> result, fetches |-> h[i].fetches]
     ELSE IF h[j].phase = "unmounted" THEN h[j]
     ELSE [h[j] EXCEPT !.urls = u]]

\* fetchUrls of instance i is over: its state, and the urls of every mounted instance,
\* which hold the same section objects as defaultUrls and so show each write into them
Shared(h, i, u, err, result) ==
  [j \in Inst |->
     IF j = i THEN [phase |-> "done", urls |-> u, loading |-> FALSE, error |-> err,
                    result |-> result, fetches |-> h[i].fetches]
     ELSE IF h[j].phase = "unmounted" THEN h[j]
     ELSE [h[j] EXCEPT !.urls = u]]

\* useUrlData() is called by a component being mounted; the effect starts fetchUrls
Mount(i) ==
  /\ hooks[i].phase = "unmounted"
  /\ hooks' = [hooks EXCEPT ![i] =
       [phase |-> "fetching", urls |-> defaultUrls, loading |-> TRUE, error |-> "none",
        result |-> "none", fetches |-> hooks[i].fetches + 1]]
  /\ UNCHANGED <<defaultUrls, localStorage, urlsTable, blogVars>>

\* the if (error) branch of fetchUrls: setError(error), then the cached copy;
\* an exception of JSON.parse or of mapUrlsToState reaches catch, which sets error again
OnBackendError(cached, u) ==
  CASE cached.kind = "absent" -> [urls |-> u, error |-> "backend"]
    [] cached.kind = "unparsable" -> [urls |-> u, error |-> "SyntaxError"]
    [] cached.kind = "notArray" -> [urls |-> u, error |-> "TypeError"]
    [] cached.kind = "array" ->
         LET r == mapUrlsToState(u, cached.data) IN
         [urls |-> r.urls, error |-> IF r.threw THEN "TypeError" ELSE "backend"]

\* the data branch of fetchUrls: if (data && data.length > 0) mapUrlsToState(data)
OnData(data, u) ==
  IF Len(data) > 0
  THEN LET r == mapUrlsToState(u, data) IN
       [urls |-> r.urls, error |-> IF r.threw THEN "TypeError" ELSE "none"]
  ELSE [urls |-> u, error |-> "none"]

\* select('*') answers { error }: fallback to the cached copy, finally setLoading(false)
FetchError(i) ==
  /\ hooks[i].phase = "fetching"
  /\ LET r == OnBackendError(localStorage, defaultUrls) IN
     /\ defaultUrls' = r.urls
     /\ hooks' = Shared(hooks, i, r.urls, r.error, "error")
  /\ UNCHANGED <<localStorage, urlsTable, blogVars>>

\* a hook that sends the request once more after the call rejected
FetchThrowsRefetches(i) ==
  /\ hooks[i].phase = "fetching"
  /\ IF hooks[i].fetches < 2
     THEN hooks' = [hooks EXCEPT ![i].fetches = @ + 1, ![i].error = "thrown"]
     ELSE hooks' = Shared(hooks, i, defaultUrls, "thrown", "thrown")
  /\ UNCHANGED <<defaultUrls, localStorage, urlsTable, blogVars>>

\* the awaited call rejects: catch sets error, finally setLoading(false)
FetchThrows(i) ==
  /\ hooks[i].phase = "fetching"
  /\ hooks' = Shared(hooks, i, defaultUrls, "thrown", "thrown")
  /\ UNCHANGED <<defaultUrls, localStorage, urlsTable, blogVars>>

\* select('*') answers { data }, the rows of the table; finally setLoading(false)
FetchSucceeds(i) ==
  /\ hooks[i].phase = "fetching"
  /\ LET r == OnData(urlsTable, defaultUrls) IN
     /\ defaultUrls' = r.urls
     /\ hooks' = Shared(hooks, i, r.urls, r.error, "data")
  /\ UNCHANGED <<localStorage, urlsTable, blogVars>>

\* ------------------------------------------------------------ specifications
\* the table when the page opens: two drafts, one saved without a publish time and
\* one saved with a schedule time before it was set back to draft
SeedRow(t) ==
  [title |-> T1, slug |-> SlugFromTitle(T1), content |-> C1, category |-> "",
   status |-> "draft", published_at |-> t, seo_title |-> T1]

InitBlog ==
  /\ isCreating = FALSE
  /\ isEditing = Null
  /\ formData = defaultBlogPostFormData
  /\ categories = <<>>
  /\ categoriesPending = TRUE
  /\ blogPosts = NoPosts
  /\ queryStatus = "loading"
  /\ blog_posts = <<SeedRow(NoTime), SeedRow(UserTime)>>
  /\ nextId = 3
  /\ inflight = {}
  /\ calls = 0
  /\ now = FirstNow
  /\ toast = "none"

InitUrl ==
  /\ defaultUrls = HardcodedUrls
  /\ hooks = [i \in Inst |-> Unmounted]

\* the blog administration page
Init ==
  /\ InitBlog
  /\ InitUrl
  /\ localStorage = [kind |-> "absent", data |-> <<>>]
  /\ urlsTable = <<>>

Next ==
  \/ OpenCreate
  \/ CancelForm
  \/ \E f \in SaveFields : \E v \in InputValues(f) : handleInputChange(f, v)
  \/ \E id \in DOMAIN blogPosts : handleStartEdit(id)
  \/ handleCreatePost
  \/ handleUpdatePost
  \/ \E id \in DOMAIN blogPosts : handleDeletePost(id)
  \/ \E id \in DOMAIN blogPosts : handlePublishPost(id)
  \/ \E m \in inflight : CreateSucceeds(m)
  \/ \E m \in inflight : CreateFails(m)
  \/ \E m \in inflight : UpdateSucceeds(m)
  \/ \E m \in inflight : UpdateFails(m)
  \/ \E m \in inflight : DeleteSucceeds(m)
  \/ \E m \in inflight : DeleteFails(m)
  \/ \E m \in inflight : PublishSucceeds(m)
  \/ \E m \in inflight : PublishFails(m)
  \/ \E ok \in BOOLEAN : fetchBlogPosts(ok)
  \/ \E ok \in BOOLEAN : fetchCategories(ok)

Spec == Init /\ [][Next]_vars

\* the components that use the URL hook
UrlInit ==
  /\ InitBlog
  /\ InitUrl
  /\ localStorage \in CachedCopies
  /\ urlsTable \in TableData

UrlNext ==
  \/ \E i \in Inst : Mount(i)
  \/ \E i \in Inst : FetchError(i)
  \/ \E i \in Inst : FetchThrows(i)
  \/ \E i \in Inst : FetchSucceeds(i)

UrlSpec == UrlInit /\ [][UrlNext]_vars

\* the awaited select('*') of a mounted instance settles: the request is answered
\* or rejected, and the rest of fetchUrls runs to its end
Settles(i) == FetchError(i) \/ FetchThrows(i) \/ FetchSucceeds(i)

\* the hook when every request sent is settled in the end
UrlLiveSpec == UrlSpec /\ \A i \in Inst : WF_vars(Settles(i))

\* the application: the blog administration page, its form filled only from the
\* posts of the list, next to the components that use the URL hook
AppNext ==
  \/ \E i \in Inst : Mount(i)
  \/ \E i \in Inst : FetchError(i)
  \/ \E i \in Inst : FetchThrows(i)
  \/ \E i \in Inst : FetchSucceeds(i)
  \/ OpenCreate
  \/ CancelForm
  \/ \E id \in DOMAIN blogPosts : handleStartEdit(id)
  \/ handleCreatePost
  \/ handleUpdatePost
  \/ \E id \in DOMAIN blogPosts : handleDeletePost(id)
  \/ \E id \in DOMAIN blogPosts : handlePublishPost(id)
  \/ \E m \in inflight : CreateSucceeds(m)
  \/ \E m \in inflight : CreateFails(m)
  \/ \E m \in inflight : UpdateSucceeds(m)
  \/ \E m \in inflight : UpdateFails(m)
  \/ \E m \in inflight : DeleteSucceeds(m)
  \/ \E m \in inflight : DeleteFails(m)
  \/ \E m \in inflight : PublishSucceeds(m)
  \/ \E m \in inflight : PublishFails(m)
  \/ \E ok \in BOOLEAN : fetchBlogPosts(ok)
  \/ \E ok \in BOOLEAN : fetchCategories(ok)

AppSpec == Init /\ [][AppNext]_vars

\* the form of the loaded page: the list holds a post saved with the SEO title its
\* title gave it, one saved with an SEO title of its own, and one saved after the
\* SEO title was cleared; the user opens, fills and closes the form
FormRows ==
  <<SeedRow(NoTime),
    [SeedRow(NoTime) EXCEPT !.seo_title = Seo1],
    [SeedRow(NoTime) EXCEPT !.title = T2, !.slug = SlugFromTitle(T2), !.seo_title = Empty]>>

FormInit ==
  /\ InitUrl
  /\ localStorage = [kind |-> "absent", data |-> <<>>]
  /\ urlsTable = <<>>
  /\ isCreating = FALSE
  /\ isEditing = Null
  /\ formData = defaultBlogPostFormData
  /\ categories = <<Cat1>>
  /\ categoriesPending = FALSE
  /\ blog_posts = FormRows
  /\ blogPosts = [i \in DOMAIN blog_posts |-> RowToPost(i, blog_posts[i])]
  /\ queryStatus = "idle"
  /\ nextId = Len(FormRows) + 1
  /\ inflight = {}
  /\ calls = 0
  /\ now = FirstNow
  /\ toast = "none"

FormNext ==
  \/ OpenCreate
  \/ CancelForm
  \/ \E f \in FormFields : \E v \in InputValues(f) : handleInputChange(f, v)
  \/ \E id \in DOMAIN blogPosts : handleStartEdit(id)

FormSpec == FormInit /\ [][FormNext]_vars

\* the save handlers applied to every title up to MaxTitleLen, the slug left blank
Titles == SeqsUpTo(Alphabet, MaxTitleLen)

SlugInit ==
  /\ InitUrl
  /\ localStorage = [kind |-> "absent", data |-> <<>>]
  /\ urlsTable = <<>>
  /\ isCreating \in BOOLEAN
  /\ isEditing = IF isCreating THEN Null ELSE 1
  /\ \E t \in Titles :
       formData = [defaultBlogPostFormData EXCEPT !.title = t, !.content = C1, !.seoTitle = t]
  /\ categories = <<>>
  /\ categoriesPending = FALSE
  /\ blog_posts = <<SeedRow(NoTime), SeedRow(UserTime)>>
  /\ blogPosts = [i \in DOMAIN blog_posts |-> RowToPost(i, blog_posts[i])]
  /\ queryStatus = "idle"
  /\ nextId = 3
  /\ inflight = {}
  /\ calls = 0
  /\ now = FirstNow
  /\ toast = "none"

SlugNext ==
  \/ handleCreatePost
  \/ handleUpdatePost
  \/ \E m \in inflight : CreateSucceeds(m)
  \/ \E m \in inflight : UpdateSucceeds(m)

SlugSpec == SlugInit /\ [][SlugNext]_vars

\* ------------------------------------------------------------------- claims
\* the calls a step issues
NewCalls == inflight' \ inflight
SaveKinds == {"create", "update"}

\* C1: while the form's title or content is empty no step issues a create or update
\* call, and the step that answers a save with the validation notification changes
\* nothing but the notification.
C1_EmptySaveIssuesNoCall ==
  [][ (formData.title = Empty \/ formData.content = Empty)
        => /\ \A m \in NewCalls : m.kind \notin SaveKinds
           /\ (toast' = "validation" /\ toast # "validation")
                => UNCHANGED <<isCreating, isEditing, formData, categories, categoriesPending,
                               blogPosts, queryStatus, blog_posts, nextId, inflight, calls, now>>
    ]_vars

\* a save of the edit form was rejected for its empty content, before any call
C1_Witness ==
  /\ toast = "validation" /\ calls = 0 /\ inflight = {}
  /\ isEditing # Null /\ formData.title # Empty /\ formData.content = Empty

\* the maximal runs of whitespace in a text
RECURSIVE WhitespaceRuns(_)
WhitespaceRuns(s) ==
  IF s = Empty THEN 0
  ELSE (IF Head(s) \in SpaceChars /\ (Len(s) = 1 \/ s[2] \notin SpaceChars) THEN 1 ELSE 0)
         + WhitespaceRuns(Tail(s))

Hyphens(s) == Cardinality({i \in 1..Len(s) : s[i] = "-"})

\* the characters of a title the transform does not delete
Survives(c) == c \in WordChars \cup SpaceChars

\* C2: a slug derived from the title (the form's slug being empty) holds no
\* whitespace and no non-word character except the hyphens that stand for
\* whitespace: one hyphen per run of whitespace the title has once its other
\* non-word characters are deleted.
C2_DerivedSlugIsClean ==
  [][ \A m \in NewCalls :
        (m.kind \in SaveKinds /\ formData.slug = Empty)
          => /\ \A i \in 1..Len(m.row.slug) :
                  /\ m.row.slug[i] \notin SpaceChars
                  /\ m.row.slug[i] \in WordChars \cup {"-"}
             /\ Hyphens(m.row.slug) = WhitespaceRuns(SelectSeq(formData.title, Survives))
    ]_vars

\* an update was issued whose slug was derived from a title with punctuation and
\* a run of two whitespace characters
C2_Witness ==
  \E m \in inflight :
    /\ m.kind = "update"
    /\ formData.title = <<" ", "-", "\t">>
    /\ m.row.slug = <<"-">>

\* C10: when the form's slug is non-empty, the slug a create or update sends is
\* the form's slug, character for character.
C10_TypedSlugSentVerbatim ==
  [][ \A m \in NewCalls :
        (m.kind \in SaveKinds /\ formData.slug # Empty) => m.row.slug = formData.slug
    ]_vars

\* a create and an update each carry the typed slug, capitals, space and '!' included
C10_Witness ==
  /\ \E m \in inflight : m.kind = "update" /\ m.row.slug = S1 /\ m.row.title # Empty

\* C3: a create or publish call, and an update call whose form has no publish time,
\* that writes status "published" carries the instant of the call as publish time;
\* and no row of the table is published with an empty publish time.
C3_PublishedIsStamped ==
  /\ [](\A id \in DOMAIN blog_posts :
          blog_posts[id].status = "published" => blog_posts[id].published_at # NoTime)
  /\ [][ \A m \in NewCalls :
           /\ (m.kind = "create" /\ formData.status = "published")
                => m.row.status = "published" /\ m.row.published_at = now
           /\ (m.kind = "update" /\ formData.status = "published"
                 /\ formData.publishedAt = NoTime)
                => m.row.status = "published" /\ m.row.published_at = now
           /\ m.kind = "publish"
                => m.row.status = "published" /\ m.row.published_at = now
       ]_vars

\* the draft saved without a publish time was edited, set to published and updated:
\* the table holds it published at the instant of the call
C3_Witness ==
  /\ 1 \in DOMAIN blog_posts
  /\ blog_posts[1].status = "published"
  /\ blog_posts[1].published_at = FirstNow
  /\ toast = "updated"

\* C4 as stated: a publish, or a create or update with status "published", applied
\* to a post or form that carries a publish time keeps that time.
C4_ExistingTimeKept ==
  [][ \A m \in NewCalls :
        /\ (m.kind \in SaveKinds /\ formData.status = "published"
              /\ formData.publishedAt # NoTime)
             => m.row.published_at = formData.publishedAt
        /\ (m.kind = "publish" /\ blogPosts[m.id].publishedAt # NoTime)
             => m.row.published_at = blogPosts[m.id].publishedAt
    ]_vars

\* the ids the table once held and holds no more, and the ids the list shows
Gone == {i \in 1..(nextId - 1) : i \notin DOMAIN blog_posts}
Listed == DOMAIN blogPosts

\* C6 as stated: once the list has been refetched after a delete, it shows no
\* deleted post and shows every post of the table.
C6_DeletedGoneOthersListed ==
  (queryStatus = "idle" /\ Gone # {})
    => (Gone \cap Listed = {} /\ DOMAIN blog_posts \subseteq Listed)

\* C6, amended: a successful delete removes exactly its row and invalidates the
\* list; once the list has been refetched it shows no deleted post, and it shows
\* every post of the table unless the refetch failed, which leaves it empty.
C6_DeletedGoneOthersListedUnlessFetchFails ==
  /\ [](queryStatus = "idle"
          => /\ Gone \cap Listed = {}
             /\ (Listed = DOMAIN blog_posts \/ Listed = {}))
  /\ [][ Gone' # Gone
           => /\ queryStatus' = "fetching"
              /\ \E m \in inflight :
                   /\ m.kind = "delete"
                   /\ DOMAIN blog_posts' = DOMAIN blog_posts \ {m.id}
                   /\ \A i \in DOMAIN blog_posts' : blog_posts'[i] = blog_posts[i]
       ]_vars

\* post 1 was deleted and the list refetched: it shows post 2 and not post 1
C6_Witness ==
  /\ queryStatus = "idle" /\ Gone = {1} /\ Listed = {2} /\ toast = "deleted"

\* a call is settled without success: it leaves the calls in flight, the table is
\* as before and no success notification is shown
SettledWithoutSuccess(m) ==
  /\ m \in inflight /\ m \notin inflight'
  /\ blog_posts' = blog_posts
  /\ toast' \notin {"created", "updated", "deleted", "published"}

\* C9: a failed create, update, delete or publish shows the error notification and
\* leaves isCreating, isEditing and the form data as they were.
C9_FailureKeepsView ==
  [][ \A m \in inflight :
        SettledWithoutSuccess(m)
          => /\ toast' = "error"
             /\ UNCHANGED <<isCreating, isEditing, formData>>
    ]_vars

\* a create failed: the error is shown and the create form is still open, filled in
C9_Witness ==
  /\ toast = "error" /\ calls = 1 /\ inflight = {}
  /\ isCreating /\ formData.title # Empty /\ formData.content # Empty
  /\ nextId = 3

\* the button URLs of each section, in the order of the group's items
SectionFields(sec) ==
  CASE sec = "hero" -> <<"ctaButton", "pricingButton">>
    [] sec = "cta" -> <<"registerButton">>
    [] sec = "navbar" -> <<"loginButton", "registerButton">>
    [] sec = "pricing" -> <<"scheduleButton">>
    [] sec = "dashboard" -> <<"registerButton">>

SectionId(sec) ==
  CASE sec = "hero" -> "1" [] sec = "cta" -> "2" [] sec = "navbar" -> "3"
    [] sec = "pricing" -> "4" [] sec = "dashboard" -> "5"

AllUrlsSet(u) ==
  \A sec \in Sections : \A k \in 1..Len(SectionFields(sec)) :
    u[sec][SectionFields(sec)[k]] \notin {Undefined, ""}

\* C5 as stated: after a failed fetch, whatever the cached copy, every button URL of
\* the instance's urls is defined and non-empty.
C5_FailedFetchLeavesUrlsSet ==
  \A i \in Inst :
    (hooks[i].phase = "done" /\ hooks[i].result \in {"error", "thrown"})
      => AllUrlsSet(hooks[i].urls)

\* the groups of data that fill section sec: its id and enough items
Filling(data, sec) ==
  {k \in 1..Len(data) :
     /\ data[k].shape = "object"
     /\ data[k].id = SectionId(sec)
     /\ Len(data[k].items) >= Len(SectionFields(sec))}

Last(S) == CHOOSE k \in S : \A j \in S : j <= k

\* data overlaid on the hardcoded defaults, section by section
OverlaidOnHardcoded(data) ==
  [sec \in Sections |->
     IF Filling(data, sec) = {} THEN HardcodedUrls[sec]
     ELSE LET g == data[Last(Filling(data, sec))] IN
          [f \in DOMAIN HardcodedUrls[sec] |->
             g.items[CHOOSE k \in 1..Len(SectionFields(sec)) : SectionFields(sec)[k] = f]]]

\* C7 as stated: after a fetch answered with a backend error, urls is the cached
\* copy overlaid on the hardcoded defaults if a copy is there, the hardcoded defaults
\* otherwise, and error is the backend's error.
C7_BackendErrorFallsBack ==
  \A i \in Inst :
    hooks[i].result = "error"
      => /\ hooks[i].error = "backend"
         /\ hooks[i].urls = IF localStorage.kind = "array"
                            THEN OverlaidOnHardcoded(localStorage.data)
                            ELSE HardcodedUrls

\* C8 as stated: after a fetch answered with data, each section holds the values of
\* its group when the data has that group with enough items, and its hardcoded
\* defaults otherwise.
C8_DataOverlaysHardcoded ==
  \A i \in Inst :
    hooks[i].result = "data" => hooks[i].urls = OverlaidOnHardcoded(urlsTable)

\* the calls a step settles
Settled == inflight \ inflight'

\* C11: a mounted instance of the URL hook has sent exactly one request, whatever
\* its fetch was answered with; a step issues at most one backend call, and only
\* as the user's trigger: it settles no call, writes no row and shows no
\* notification; so a step that settles a call, failed or not, issues none.
C11_NoAutomaticRetry ==
  /\ [](\A i \in Inst :
          hooks[i].fetches = IF hooks[i].phase = "unmounted" THEN 0 ELSE 1)
  /\ [][ /\ Cardinality(NewCalls) <= 1
         /\ calls' = calls + Cardinality(NewCalls)
         /\ NewCalls # {}
              => /\ Settled = {}
                 /\ UNCHANGED <<blog_posts, toast, isCreating, isEditing, formData>>
         /\ Settled # {} => NewCalls = {}
       ]_vars

\* a backend call failed and was not sent again, and both instances of the hook are
\* done, one after a backend error and one after a rejected call, each with one request
C11_Witness ==
  /\ toast = "error" /\ calls = 1 /\ inflight = {}
  /\ hooks["a"].result = "error" /\ hooks["a"].fetches = 1
  /\ hooks["b"].result = "thrown" /\ hooks["b"].fetches = 1

\* the form's fields other than the title and the SEO title
OtherFields == FormFields \ {"title", "seoTitle"}

\* the step is a change of the form's title input: the view and the other fields stay
TitleTyped ==
  /\ formData'.title # formData.title
  /\ UNCHANGED <<isCreating, isEditing>>
  /\ \A f \in OtherFields : formData'[f] = formData[f]

\* the step starts the edit of a post whose title is not the form's
EditStartedWithNewTitle ==
  /\ isEditing = Null /\ isEditing' # Null
  /\ formData'.title # formData.title

\* C12: when the title input changes to a non-empty title, an empty SEO title
\* becomes that title and a non-empty SEO title stays as it is; when an edit is
\* started on a post with another, non-empty title, the form's SEO title is the
\* post's own, or the post's title if the post has none.
C12_SeoTitleCopiedIfEmpty ==
  [][ /\ (TitleTyped /\ formData'.title # Empty)
           => formData'.seoTitle = IF formData.seoTitle = Empty THEN formData'.title
                                   ELSE formData.seoTitle
      /\ (EditStartedWithNewTitle /\ formData'.title # Empty)
           => LET post == blogPosts[isEditing'] IN
              formData'.seoTitle = IF post.seoTitle = Empty THEN post.title
                                   ELSE post.seoTitle
    ]_vars

\* the edit of the post saved without an SEO title was started, which copied its
\* title, and the title input was then changed to another title: the copy stayed
C12_Witness ==
  /\ isEditing = 3
  /\ formData.title = T1
  /\ formData.seoTitle = T2

\* C13 as stated: whatever the instances fetched, defaultUrls holds its literal
\* values, and an instance whose fetch failed with no cached copy shows them.
C13_DefaultsNeverModified ==
  /\ defaultUrls = HardcodedUrls
  /\ \A i \in Inst :
       (hooks[i].result \in {"error", "thrown"} /\ localStorage.kind = "absent")
         => hooks[i].urls = HardcodedUrls

\* C14 as stated: while a post is being edited, a step that changes the form data
\* is the user's input: it settles no call and shows no notification.
C14_EditFormChangedByInputOnly ==
  [][ (isEditing # Null /\ isEditing' = isEditing /\ formData' # formData)
        => (Settled = {} /\ toast' = toast)
    ]_vars

\* C15: isCreating is never true while isEditing is non-null.
C15_CreateAndEditExclusive == ~(isCreating /\ isEditing # Null)

\* a create was saved, its form cancelled and an edit started while the create is
\* still in flight: the page is in edit mode alone, a completion yet to come
C15_Witness ==
  /\ isEditing # Null /\ ~isCreating
  /\ \E m \in inflight : m.kind = "create"

\* C16 as stated: when the create form is opened, the form data is the default
\* blank form apart from the category.
C16_CreateFormOpensBlank ==
  [][ (~isCreating /\ isCreating')
        => [formData' EXCEPT !.category = ""] = defaultBlogPostFormData
    ]_vars

\* C17: an instance's loading flag is true until its fetch is over; a fetch that
\* was started is over in the end, whatever it is answered with, and loading is
\* then false; once false, loading is never true again.
C17_LoadingEndsAndStaysFalse ==
  /\ [](\A i \in Inst : hooks[i].phase # "done" => hooks[i].loading)
  /\ \A i \in Inst : (hooks[i].phase = "fetching") ~> ~hooks[i].loading
  /\ [][ \A i \in Inst : ~hooks[i].loading => ~hooks'[i].loading ]_vars

\* loading is false in both instances: one got a backend error and an unparsable
\* cached copy, the other's call was rejected
C17_Witness ==
  /\ localStorage.kind = "unparsable"
  /\ hooks["a"].result = "error" /\ hooks["a"].error = "SyntaxError" /\ ~hooks["a"].loading
  /\ hooks["b"].result = "thrown" /\ ~hooks["b"].loading

====
